---- MODULE Spec2Model ----
(***************************************************************************)
(* Request rate limiting of the backend (middleware/rateLimiter.ts, kept   *)
(* in src/backend/src/middleware/errorHandler.ts from line 85 on).         *)
(*                                                                         *)
(* Two process-wide stores (store, emailStore) map a limiting key to a     *)
(* record {count, resetTime}.  A record is a JavaScript object: closures   *)
(* registered by a request (res.on('finish'), the res.json wrapper) keep a *)
(* reference to the object they were given, also after the store entry has *)
(* been replaced or deleted.  A pending callback holds the key of the      *)
(* object it closed over for as long as that object is the store's entry;  *)
(* when the entry is replaced or deleted the callback is left with an      *)
(* object no store refers to (key "").  Such an object is read by nothing  *)
(* but the callbacks that write it, so its fields are not kept.            *)
(*                                                                         *)
(* Time is Date.now() in milliseconds, counted from module load.           *)
(***************************************************************************)
EXTENDS Integers, Sequences, FiniteSets, Bags, TLC

VARIABLES
    now,         \* Date.now()
    store,       \* IP store: key -> [count, resetTime], for the keys present
    emailStore,  \* email store: key -> [count, resetTime], for the keys present
    pending,     \* bag of callbacks of admitted requests that have not fired yet
    res,         \* what the guard that ran last did to its response object
    audit        \* history of the records, where a specification keeps it: for an IP
                 \* record who created it and how often its creator asked, for an
                 \* email record how the requests admitted on it ended

vars == <<now, store, emailStore, pending, res, audit>>

----------------------------------------------------------------------------
(* Bounds of the exploration *)

\* ceiling of the limiters built for exploration
TestMax == 2
\* number of clock advances explored
MaxTicks == 2
\* where several clients are explored: clock advances, outstanding callbacks
PairTicks == 1
PairPending == 1
\* outstanding callbacks where the exported IP limiters are explored
AppPending == 1
\* number of admitted requests whose callbacks may be outstanding at once
MaxPending == 2
\* the same, where simultaneous login attempts are explored
MaxRacePending == 6
\* how far below zero the count of a corrupted record lies
MaxDeficit == 2
\* the history of an email record counts failed logins up to this many ("or more")
MaxFailed == 7

----------------------------------------------------------------------------
(* Policy instances *)

\* errorHandler.ts:167-171
rateLimiter ==
    [name |-> "rateLimiter", windowMs |-> 15 * 60 * 1000, maxRequests |-> 100,
     message |-> "Too many requests from this IP, please try again later",
     skipSuccessfulRequests |-> FALSE]

\* errorHandler.ts:174-179
strictRateLimiter ==
    [name |-> "strictRateLimiter", windowMs |-> 15 * 60 * 1000, maxRequests |-> 5,
     message |-> "Too many attempts, please try again later",
     skipSuccessfulRequests |-> TRUE]

\* errorHandler.ts:268-272
apiRateLimiter ==
    [name |-> "apiRateLimiter", windowMs |-> 60 * 1000, maxRequests |-> 10,
     message |-> "API rate limit exceeded, please slow down",
     skipSuccessfulRequests |-> FALSE]

\* errorHandler.ts:251-255
loginRateLimiter ==
    [name |-> "loginRateLimiter", windowMs |-> 15 * 60 * 1000, maxAttempts |-> 5,
     message |-> "Too many failed login attempts for this account, please try again later"]

\* createRateLimiter({windowMs, maxRequests}) with the defaults of lines 109-110
plainLimiter ==
    [name |-> "plainLimiter", windowMs |-> 1000, maxRequests |-> TestMax,
     message |-> "Too many requests, please try again later",
     skipSuccessfulRequests |-> FALSE]

\* createRateLimiter({windowMs, maxRequests, skipSuccessfulRequests: true})
refundLimiter ==
    [name |-> "refundLimiter", windowMs |-> 1000, maxRequests |-> TestMax,
     message |-> "Too many requests, please try again later",
     skipSuccessfulRequests |-> TRUE]

\* createEmailRateLimiter({windowMs, maxAttempts}) with the default of line 194
emailLimiter ==
    [name |-> "emailLimiter", windowMs |-> 1000, maxAttempts |-> TestMax,
     message |-> "Too many failed attempts for this account, please try again later"]

\* the more permissive login policy of the outcome-gated test: maxAttempts = 6
permissiveLoginLimiter ==
    [name |-> "permissiveLoginLimiter", windowMs |-> 15 * 60 * 1000,
     maxAttempts |-> loginRateLimiter.maxAttempts + 1,
     message |-> "Too many failed attempts for this account, please try again later"]

\* createRateLimiter(options): the options as the middleware uses them, with
\* the defaults of lines 109-110; nothing in lines 105-111 rejects an option
createRateLimiter(options) ==
    [name |-> options.name, windowMs |-> options.windowMs,
     maxRequests |-> options.maxRequests,
     message |-> "Too many requests, please try again later",
     skipSuccessfulRequests |-> FALSE]

\* createEmailRateLimiter(options), with the default of line 194; nothing in
\* lines 190-195 rejects an option
createEmailRateLimiter(options) ==
    [name |-> options.name, windowMs |-> options.windowMs,
     maxAttempts |-> options.maxAttempts,
     message |-> "Too many failed attempts for this account, please try again later"]

\* options a caller may pass: a window or a maximum below, at and above zero,
\* the other option being a valid one
ConfigOptions ==
    {o \in [windowMs : {0 - plainLimiter.windowMs, 0, plainLimiter.windowMs},
            max : {-1, 0, 1}] :
        o.windowMs = plainLimiter.windowMs \/ o.max = 1}

ConfigName(o) == "windowMs=" \o ToString(o.windowMs) \o ",max=" \o ToString(o.max)

ConfigIpLimiters ==
    {createRateLimiter([name |-> ConfigName(o), windowMs |-> o.windowMs,
                        maxRequests |-> o.max]) : o \in ConfigOptions}

ConfigEmailLimiters ==
    {createEmailRateLimiter([name |-> ConfigName(o), windowMs |-> o.windowMs,
                             maxAttempts |-> o.max]) : o \in ConfigOptions}

TestIpLimiters == {plainLimiter, refundLimiter}
PairIpLimiters == {refundLimiter}
TestEmailLimiters == {emailLimiter}
AppIpLimiters == {rateLimiter, strictRateLimiter, apiRateLimiter}

----------------------------------------------------------------------------
(* Requests *)

\* req.ip / req.socket.remoteAddress of a request; "" stands for undefined
IpRequests ==
    { [ip |-> "1.2.3.4", remoteAddress |-> "1.2.3.4"],
      [ip |-> "",        remoteAddress |-> "1.2.3.4"],
      [ip |-> "",        remoteAddress |-> ""] }

\* the requests of the client at 1.2.3.4
OneIpRequests == {req \in IpRequests : req.remoteAddress = "1.2.3.4"}

\* key = req.ip || req.socket.remoteAddress || 'unknown'   (line 114)
IpKey(req) ==
    IF req.ip # "" THEN req.ip
    ELSE IF req.remoteAddress # "" THEN req.remoteAddress
    ELSE "unknown"

\* a value of req.body.email that is not a string: the JSON number 123
NumberEmail == "<number 123>"

\* `typeof email`
typeof(email) == IF email = NumberEmail THEN "number" ELSE "string"

\* String.prototype.toLowerCase, on the addresses used here
toLowerCase(s) ==
    CASE s = "A@B.com" -> "a@b.com"
      [] s = "C@D.com" -> "c@d.com"
      [] OTHER -> s

\* key = `email:${email.toLowerCase()}`   (line 205)
EmailKey(email) == "email:" \o toLowerCase(email)

\* what a login request carries, as the login handler will classify it
\* (user.ts:114-129): a field missing, no such user, wrong password, correct
Credentials == {"missing", "unknown-user", "wrong-password", "correct"}

\* req.body of a request that reaches an email limiter; email "" stands for
\* an absent or empty field
EmailRequests == [email : {"", "a@b.com", "A@B.com"}, password : {"correct"}]

PairEmailRequests == [email : {"a@b.com", "A@B.com", "c@d.com"}, password : {"correct"}]

\* the same, with a body whose email is a number
AnyEmailRequests == [email : {"", "a@b.com", NumberEmail}, password : {"correct"}]

LoginRequests == [email : {"", "a@b.com", "A@B.com"}, password : Credentials]

RaceRequests == [email : {"a@b.com"}, password : {"wrong-password", "correct"}]

\* HTTP status codes a response may carry
StatusCodes == {200, 400, 401, 404, 429, 500}

\* the argument of res.json, as far as the wrapper reads it (body.success)
Bodies == {[success |-> TRUE], [success |-> FALSE]}

----------------------------------------------------------------------------
(* Records and stores *)

Min(a, b) == IF a <= b THEN a ELSE b
Max(a, b) == IF a >= b THEN a ELSE b

\* Math.ceil(a / b) for b > 0
Ceil(a, b) == -((-a) \div b)

\* whether the object a callback closed over is still the store's entry
Attached(cb) == cb.key # ""

\* a callback whose object is no longer in the store
Detached(cb) == [on |-> cb.on, key |-> "", password |-> ""]

RECURSIVE Copies(_, _)
Copies(cbs, p) ==
    IF cbs = {} THEN 0
    ELSE LET cb == CHOOSE c \in cbs : TRUE
         IN  CopiesIn(cb, p) + Copies(cbs \ {cb}, p)

\* callbacks that go on with whatever record the key has
ReleasedNever(p, keys) == p

\* the pending callbacks once the entries of `keys` are replaced or deleted:
\* the closures keep the old objects
Released(p, keys) ==
    LET after(cb) == IF cb.key \in keys THEN Detached(cb) ELSE cb
        image == {after(cb) : cb \in BagToSet(p)}
    IN  [c \in image |-> Copies({cb \in BagToSet(p) : after(cb) = c}, p)]

\* s[key] = r
Put(s, key, r) == [k \in DOMAIN s \cup {key} |-> IF k = key THEN r ELSE s[k]]

\* a lookup that makes a record only for a key that has none
NeedsFreshRecordIfAbsent(s, key, t) == key \notin DOMAIN s

\* `!store[key] || store[key].resetTime < now`   (lines 118, 209)
NeedsFreshRecord(s, key, t) == key \notin DOMAIN s \/ s[key].resetTime < t

\* `{ count: 0, resetTime: now + windowMs }`   (lines 119-122, 210-213)
FreshRecord(t, windowMs) == [count |-> 0, resetTime |-> t + windowMs]

\* a lookup that pushes the resetTime of a live record forward on every request
GetOrInitRestamped(s, key, t, windowMs) ==
    IF NeedsFreshRecord(s, key, t)
    THEN Put(s, key, FreshRecord(t, windowMs))
    ELSE [s EXCEPT ![key].resetTime = t + windowMs]

\* "Initialize or get existing record"   (lines 117-125, 208-216)
GetOrInit(s, key, t, windowMs) ==
    IF NeedsFreshRecord(s, key, t)
    THEN Put(s, key, FreshRecord(t, windowMs))
    ELSE s

\* the pending callbacks after "Initialize or get existing record"
Outstanding(p, s, key, t) ==
    IF NeedsFreshRecord(s, key, t) THEN Released(p, {key}) ELSE p

\* a check that lets the count reach the ceiling plus one
LimitExceededAbove(record, max) == record.count > max

\* a check that also denies on a count below zero
LimitExceededOrNegative(record, max) == record.count >= max \/ record.count < 0

\* `record.count >= maxRequests`   (lines 128, 219)
LimitExceeded(record, max) == record.count >= max

\* a charge that lands on every record of the store
IncrementAll(s, key) == [k \in DOMAIN s |-> [s[k] EXCEPT !.count = @ + 1]]

\* `record.count++`   (lines 146, 238)
Increment(s, key) == [s EXCEPT ![key].count = @ + 1]

\* a finish hook that never takes a charge back
DecrementNever(s, key) == s

\* a refund that takes back two charges and has no floor
DecrementTwice(s, key) == [s EXCEPT ![key].count = @ - 2]

\* `record.count = Math.max(0, record.count - 1)`   (line 157)
Decrement(s, key) == [s EXCEPT ![key].count = Max(0, @ - 1)]

\* a success that takes back one failure only
ResetCountByOne(s, key) == [s EXCEPT ![key].count = IF @ > 0 THEN @ - 1 ELSE 0]

\* `record.count = 0`   (line 241)
ResetCount(s, key) == [s EXCEPT ![key].count = 0]

\* a cleanup that deletes nothing
SweepNothing(s, t) == s

\* `delete store[key]` for every key with resetTime < now   (lines 260-264, 277-281)
Sweep(s, t) ==
    LET kept == {k \in DOMAIN s : ~(s[k].resetTime < t)}
    IN  [k \in kept |-> s[k]]

\* `Math.ceil((record.resetTime - now) / 1000)`   (lines 129, 220)
RetryAfter(record, t) == Ceil(record.resetTime - t, 1000)

\* `Math.max(0, maxRequests - record.count)`   (line 150)
Remaining(max, record) == Max(0, max - record.count)

\* `new Date(record.resetTime).toISOString()`: the instant as an ISO-8601 text
toISOString(t) == [iso8601 |-> t]

NoBody == [sent |-> FALSE]

\* a 429 body that gives retryAfter in milliseconds
TooManyBodyMs(message, retryAfter) ==
    [success |-> FALSE,
     error |-> [message |-> message, statusCode |-> 429, retryAfter |-> retryAfter * 1000]]

\* the body of the 429 response   (lines 135-142, 223-230)
TooManyBody(message, retryAfter) ==
    [success |-> FALSE,
     error |-> [message |-> message, statusCode |-> 429, retryAfter |-> retryAfter]]

\* what the lookup `store[key]` found when the request arrived
Found(s, key) ==
    IF key \in DOMAIN s
    THEN [present |-> TRUE, count |-> s[key].count, resetTime |-> s[key].resetTime]
    ELSE [present |-> FALSE, count |-> 0, resetTime |-> 0]

\* no guard is handling a request
NoResponse == [guard |-> "none"]

----------------------------------------------------------------------------
(* The clock *)

RECURSIVE Sums(_, _)
Sums(steps, n) ==
    IF n = 0 THEN {0}
    ELSE LET P == Sums(steps, n - 1) IN P \cup {p + d : p \in P, d \in steps}

\* clock advances explored: the windows of the limiters
TestSteps == {plainLimiter.windowMs, 2 * plainLimiter.windowMs}
PairSteps == {2 * plainLimiter.windowMs}
AppSteps == {apiRateLimiter.windowMs, rateLimiter.windowMs}
LoginSteps == {loginRateLimiter.windowMs}
RaceSteps == {loginRateLimiter.windowMs}
StrictSteps == {strictRateLimiter.windowMs}

\* Date.now() moves on by d ms
Tick(steps, d, n) ==
    /\ d \in steps
    /\ now + d \in Sums(steps, n)
    /\ now' = now + d
    /\ res' = NoResponse
    /\ UNCHANGED <<store, emailStore, pending, audit>>

----------------------------------------------------------------------------
(* createRateLimiter(options)(req, res, next)   (lines 105-164) *)

\* lines 128-143
IpDenied(opt, req, record) ==
    [guard |-> "ip", limiter |-> opt.name, req |-> req, key |-> IpKey(req),
     evaluated |-> TRUE, at |-> now, found |-> Found(store, IpKey(req)),
     status |-> 429, next |-> FALSE,
     headers |-> ("Retry-After" :> RetryAfter(record, now))
              @@ ("X-RateLimit-Limit" :> opt.maxRequests)
              @@ ("X-RateLimit-Remaining" :> 0)
              @@ ("X-RateLimit-Reset" :> toISOString(record.resetTime)),
     body |-> TooManyBody(opt.message, RetryAfter(record, now))]

\* lines 148-162
IpAllowed(opt, req, record) ==
    [guard |-> "ip", limiter |-> opt.name, req |-> req, key |-> IpKey(req),
     evaluated |-> TRUE, at |-> now, found |-> Found(store, IpKey(req)),
     status |-> 200, next |-> TRUE,
     headers |-> ("X-RateLimit-Limit" :> opt.maxRequests)
              @@ ("X-RateLimit-Remaining" :> Remaining(opt.maxRequests, record))
              @@ ("X-RateLimit-Reset" :> toISOString(record.resetTime)),
     body |-> NoBody]

\* the history of the record of `key` after a request of limiter `opt`: which
\* limiter created the record when the key had none, and how many requests
\* that limiter has received for the key since
Audited(opt, key) ==
    LET a1 == IF NeedsFreshRecord(store, key, now)
              THEN Put(audit, key, [by |-> IF key \in DOMAIN store THEN "-" ELSE opt.name, own |-> 0])
              ELSE audit
    IN  IF key \in DOMAIN a1 /\ a1[key].by = opt.name
        THEN [a1 EXCEPT ![key].own = Min(@ + 1, opt.maxRequests + 1)]
        ELSE a1

\* the history once the records of `keys` are deleted
Forgotten(a, keys) == [k \in DOMAIN a \ keys |-> a[k]]

IpRequest(opt, req) ==
    LET key == IpKey(req)
        s1 == GetOrInit(store, key, now, opt.windowMs)
        p1 == Outstanding(pending, store, key, now)
        record == s1[key]
    IN  /\ UNCHANGED <<now, emailStore>>
        /\ IF LimitExceeded(record, opt.maxRequests)
           THEN /\ res' = IpDenied(opt, req, record)
                /\ store' = s1
                /\ pending' = p1
           ELSE LET s2 == Increment(s1, key)
                IN /\ res' = IpAllowed(opt, req, s2[key])
                   /\ store' = s2
                   /\ pending' = IF opt.skipSuccessfulRequests
                                 THEN p1 (+) SetToBag({[on |-> "finish", key |-> key,
                                                        password |-> ""]})
                                 ELSE p1

\* the res.on('finish') callback of a skipSuccessfulRequests limiter (lines 155-159)
Finish(cb, statusCode) ==
    /\ cb \in BagToSet(pending)
    /\ cb.on = "finish"
    /\ pending' = pending (-) SetToBag({cb})
    /\ store' = IF statusCode < 400 /\ Attached(cb)
                THEN Decrement(store, cb.key)
                ELSE store
    /\ res' = NoResponse
    /\ UNCHANGED <<now, emailStore>>

\* the cleanup interval of the IP store (lines 275-282)
SweepStore ==
    /\ store' = Sweep(store, now)
    /\ pending' = Released(pending, DOMAIN store \ DOMAIN Sweep(store, now))
    /\ audit' = Forgotten(audit, DOMAIN store \ DOMAIN Sweep(store, now))
    /\ res' = NoResponse
    /\ UNCHANGED <<now, emailStore>>

----------------------------------------------------------------------------
(* createEmailRateLimiter(options)(req, res, next)   (lines 190-248) *)

\* a guard that turns away a request without an email
EmailSkippedRejected(opt, req) ==
    [guard |-> "email", limiter |-> opt.name, req |-> req, key |-> "",
     evaluated |-> FALSE, at |-> now, found |-> Found(emailStore, ""),
     status |-> 429, next |-> FALSE, headers |-> <<>>, body |-> NoBody]

\* lines 200-203
EmailSkipped(opt, req) ==
    [guard |-> "email", limiter |-> opt.name, req |-> req, key |-> "",
     evaluated |-> FALSE, at |-> now, found |-> Found(emailStore, ""),
     status |-> 200, next |-> TRUE, headers |-> <<>>, body |-> NoBody]

\* line 205 for an email that has no toLowerCase method: the TypeError leaves
\* the middleware, Express hands it to errorHandler, which answers with
\* err.statusCode || 500   (lines 26, 40-47)
EmailThrown(opt, req) ==
    [guard |-> "email", limiter |-> opt.name, req |-> req, key |-> "",
     evaluated |-> FALSE, at |-> now, found |-> Found(emailStore, ""),
     status |-> 500, next |-> FALSE, headers |-> <<>>,
     body |-> [success |-> FALSE,
               error |-> [message |-> "email.toLowerCase is not a function",
                          statusCode |-> 500]]]

\* lines 219-231
EmailDenied(opt, req, record) ==
    [guard |-> "email", limiter |-> opt.name, req |-> req, key |-> EmailKey(req.email),
     evaluated |-> TRUE, at |-> now, found |-> Found(emailStore, EmailKey(req.email)),
     status |-> 429, next |-> FALSE,
     headers |-> ("Retry-After" :> RetryAfter(record, now)),
     body |-> TooManyBody(opt.message, RetryAfter(record, now))]

\* lines 233-246
EmailAllowed(opt, req, record) ==
    [guard |-> "email", limiter |-> opt.name, req |-> req, key |-> EmailKey(req.email),
     evaluated |-> TRUE, at |-> now, found |-> Found(emailStore, EmailKey(req.email)),
     status |-> 200, next |-> TRUE, headers |-> <<>>, body |-> NoBody]

\* the history of the record of `req`'s account after its request: a record
\* made for the request has seen no login end yet
EmailAudited(req) ==
    IF req.email # "" /\ NeedsFreshRecord(emailStore, EmailKey(req.email), now)
    THEN Put(audit, EmailKey(req.email), [phase |-> "failing", failed |-> 0, after |-> 0])
    ELSE audit

EmailRequest(opt, req) ==
    /\ UNCHANGED <<now, store>>
    /\ IF req.email = ""
       THEN /\ res' = EmailSkipped(opt, req)
            /\ UNCHANGED <<emailStore, pending>>
       ELSE IF typeof(req.email) # "string"
       THEN /\ res' = EmailThrown(opt, req)
            /\ UNCHANGED <<emailStore, pending>>
       ELSE LET key == EmailKey(req.email)
                s1 == GetOrInit(emailStore, key, now, opt.windowMs)
                p1 == Outstanding(pending, emailStore, key, now)
                record == s1[key]
            IN  /\ emailStore' = s1
                /\ IF LimitExceeded(record, opt.maxAttempts)
                   THEN /\ res' = EmailDenied(opt, req, record)
                        /\ pending' = p1
                   ELSE /\ res' = EmailAllowed(opt, req, record)
                        /\ pending' = p1 (+) SetToBag({[on |-> "json", key |-> key,
                                                        password |-> req.password]})

\* a wrapper that counts validation errors (400) only
AfterJsonOn400(s, key, body, statusCode) ==
    IF ~body.success /\ statusCode = 400
    THEN [s EXCEPT ![key].count = @ + 1]
    ELSE IF body.success /\ statusCode < 400
    THEN [s EXCEPT ![key].count = 0]
    ELSE s

\* a wrapper that counts every unsuccessful response, whatever its status
AfterJsonOnAnyError(s, key, body, statusCode) ==
    IF ~body.success
    THEN [s EXCEPT ![key].count = @ + 1]
    ELSE IF statusCode < 400
    THEN [s EXCEPT ![key].count = 0]
    ELSE s

\* the count after the wrapped res.json(body) has run   (lines 235-244)
AfterJson(s, key, body, statusCode) ==
    IF ~body.success /\ (statusCode = 401 \/ statusCode = 400)
    THEN Increment(s, key)
    ELSE IF body.success /\ statusCode < 400
    THEN ResetCount(s, key)
    ELSE s

\* the downstream handler answers through the wrapped res.json
ResJson(cb, body, statusCode) ==
    /\ cb \in BagToSet(pending)
    /\ cb.on = "json"
    /\ pending' = pending (-) SetToBag({cb})
    /\ emailStore' = IF Attached(cb)
                     THEN AfterJson(emailStore, cb.key, body, statusCode)
                     ELSE emailStore
    /\ res' = NoResponse
    /\ UNCHANGED <<now, store>>

\* POST /login behind the limiter (user.ts:110-153), answered by res.json or,
\* for a thrown error, by errorHandler (lines 26, 40-47): status and body.success
LoginHandler(cb) ==
    CASE cb.password = "missing" -> [statusCode |-> 400, body |-> [success |-> FALSE]]
      [] cb.password = "unknown-user" -> [statusCode |-> 401, body |-> [success |-> FALSE]]
      [] cb.password = "wrong-password" -> [statusCode |-> 401, body |-> [success |-> FALSE]]
      [] cb.password = "correct" -> [statusCode |-> 200, body |-> [success |-> TRUE]]
      [] OTHER -> [statusCode |-> 500, body |-> [success |-> FALSE]]

\* the history of the record a login was admitted on, once the login has
\* ended.  The history counts the authentication failures (401) that ended on
\* the record (`failed`, phase "failing"), then, after one success, those that
\* followed it (`after`, phase "cleared"); a second success or a validation
\* error (400) ends the history (phase "other")
LoginAudited(cb) ==
    LET h == audit[cb.key]
        statusCode == LoginHandler(cb).statusCode
        other == [phase |-> "other", failed |-> 0, after |-> 0]
    IN  IF ~Attached(cb) \/ cb.key \notin DOMAIN audit THEN audit
        ELSE IF statusCode = 401 /\ h.phase = "failing"
        THEN [audit EXCEPT ![cb.key].failed = Min(@ + 1, MaxFailed)]
        ELSE IF statusCode = 401 /\ h.phase = "cleared"
        THEN [audit EXCEPT ![cb.key].after = Min(@ + 1, MaxFailed)]
        ELSE IF statusCode = 200 /\ h.phase = "failing"
        THEN [audit EXCEPT ![cb.key].phase = "cleared"]
        ELSE IF statusCode = 401 THEN audit
        ELSE [audit EXCEPT ![cb.key] = other]

\* the cleanup interval of the email store (lines 258-265)
SweepEmailStore ==
    /\ emailStore' = Sweep(emailStore, now)
    /\ pending' = Released(pending, DOMAIN emailStore \ DOMAIN Sweep(emailStore, now))
    /\ audit' = Forgotten(audit, DOMAIN emailStore \ DOMAIN Sweep(emailStore, now))
    /\ res' = NoResponse
    /\ UNCHANGED <<now, store>>

----------------------------------------------------------------------------
(* Specifications *)

Init ==
    /\ now = 0
    /\ store = <<>>
    /\ emailStore = <<>>
    /\ audit = <<>>
    /\ pending = EmptyBag
    /\ res = NoResponse

\* limiters built with small options: one client address, one account
Next ==
    \/ \E d \in TestSteps : Tick(TestSteps, d, MaxTicks)
    \/ \E opt \in TestIpLimiters, req \in OneIpRequests :
          /\ IpRequest(opt, req)
          /\ UNCHANGED audit
          /\ BagCardinality(pending') <= MaxPending
    \/ \E cb \in BagToSet(pending), statusCode \in StatusCodes :
          Finish(cb, statusCode) /\ UNCHANGED audit
    \/ \E opt \in TestEmailLimiters, req \in EmailRequests :
          /\ EmailRequest(opt, req)
          /\ UNCHANGED audit
          /\ BagCardinality(pending') <= MaxPending
    \/ \E cb \in BagToSet(pending), body \in Bodies, statusCode \in StatusCodes :
          ResJson(cb, body, statusCode) /\ UNCHANGED audit
    \/ SweepStore
    \/ SweepEmailStore

Spec == Init /\ [][Next]_vars

\* the same limiters, two client addresses and two accounts; the two stores
\* are explored one at a time, a store being used while the other is empty
NextPair ==
    \/ \E d \in PairSteps : Tick(PairSteps, d, PairTicks)
    \/ \E opt \in PairIpLimiters, req \in IpRequests :
          /\ emailStore = <<>>
          /\ IpRequest(opt, req)
          /\ UNCHANGED audit
          /\ BagCardinality(pending') <= PairPending
    \/ \E cb \in BagToSet(pending), statusCode \in StatusCodes :
          Finish(cb, statusCode) /\ UNCHANGED audit
    \/ \E opt \in TestEmailLimiters, req \in PairEmailRequests :
          /\ store = <<>>
          /\ EmailRequest(opt, req)
          /\ UNCHANGED audit
          /\ BagCardinality(pending') <= PairPending
    \/ \E cb \in BagToSet(pending), body \in Bodies, statusCode \in StatusCodes :
          ResJson(cb, body, statusCode) /\ UNCHANGED audit
    \/ SweepStore
    \/ SweepEmailStore

SpecPair == Init /\ [][NextPair]_vars

\* the three IP limiters the application exports, one client address
NextApp ==
    \/ \E d \in AppSteps : Tick(AppSteps, d, MaxTicks)
    \/ \E opt \in AppIpLimiters, req \in OneIpRequests :
          /\ IpRequest(opt, req)
          /\ UNCHANGED audit
          /\ BagCardinality(pending') <= AppPending
    \/ \E cb \in BagToSet(pending), statusCode \in StatusCodes :
          Finish(cb, statusCode) /\ UNCHANGED audit
    \/ SweepStore

SpecApp == Init /\ [][NextApp]_vars

\* the guard that ran last was limiter `opt`, and it passed `req` on
PassedBy(opt, req) ==
    res.guard = "ip" /\ res.limiter = opt.name /\ res.req = req /\ res.next

\* the application as mounted, one client address, with the history: every
\* request meets the general limiter (index.ts:25), a request to /subscribe
\* that it passed on then meets the API limiter (subscription.ts:164)
NextShared ==
    \/ \E d \in AppSteps : Tick(AppSteps, d, MaxTicks)
    \/ \E req \in OneIpRequests :
          IpRequest(rateLimiter, req) /\ audit' = Audited(rateLimiter, IpKey(req))
    \/ \E req \in OneIpRequests :
          /\ PassedBy(rateLimiter, req)
          /\ IpRequest(apiRateLimiter, req)
          /\ audit' = Audited(apiRateLimiter, IpKey(req))
    \/ SweepStore

SpecShared == Init /\ [][NextShared]_vars

\* records as a fault may leave them: the count anywhere from below zero up to
\* the ceiling, the resetTime before or after the first request
CorruptRecords ==
    [count : (0 - MaxDeficit) .. TestMax,
     resetTime : {0 - plainLimiter.windowMs, plainLimiter.windowMs}]

\* the stores hold one such record, for the client or for the account
InitCorrupt ==
    /\ now = 0
    /\ \E r \in CorruptRecords :
          \/ store = ("1.2.3.4" :> r) /\ emailStore = <<>>
          \/ store = <<>> /\ emailStore = (EmailKey("a@b.com") :> r)
    /\ audit = <<>>
    /\ pending = EmptyBag
    /\ res = NoResponse

\* the limiters built with small options, on stores that start out corrupted
NextCorrupt ==
    \/ \E d \in PairSteps : Tick(PairSteps, d, PairTicks)
    \/ \E opt \in TestIpLimiters, req \in OneIpRequests :
          /\ IpRequest(opt, req)
          /\ UNCHANGED audit
          /\ BagCardinality(pending') <= PairPending
    \/ \E cb \in BagToSet(pending), statusCode \in StatusCodes :
          Finish(cb, statusCode) /\ UNCHANGED audit
    \/ \E opt \in TestEmailLimiters, req \in EmailRequests :
          /\ EmailRequest(opt, req)
          /\ UNCHANGED audit
          /\ BagCardinality(pending') <= PairPending
    \/ \E cb \in BagToSet(pending), body \in Bodies, statusCode \in StatusCodes :
          ResJson(cb, body, statusCode) /\ UNCHANGED audit
    \/ SweepStore
    \/ SweepEmailStore

SpecCorrupt == InitCorrupt /\ [][NextCorrupt]_vars

\* limiters built from any options, one client address and one account
NextConfig ==
    \/ \E d \in PairSteps : Tick(PairSteps, d, PairTicks)
    \/ \E opt \in ConfigIpLimiters, req \in OneIpRequests :
          IpRequest(opt, req) /\ UNCHANGED audit
    \/ \E opt \in ConfigEmailLimiters, req \in EmailRequests :
          /\ EmailRequest(opt, req)
          /\ UNCHANGED audit
          /\ BagCardinality(pending') <= PairPending
    \/ \E cb \in BagToSet(pending), body \in Bodies, statusCode \in StatusCodes :
          ResJson(cb, body, statusCode) /\ UNCHANGED audit
    \/ SweepStore
    \/ SweepEmailStore

SpecConfig == Init /\ [][NextConfig]_vars

\* an email limiter and request bodies of any shape, one account
NextInputs ==
    \/ \E d \in TestSteps : Tick(TestSteps, d, MaxTicks)
    \/ \E opt \in TestEmailLimiters, req \in AnyEmailRequests :
          /\ EmailRequest(opt, req)
          /\ UNCHANGED audit
          /\ BagCardinality(pending') <= MaxPending
    \/ \E cb \in BagToSet(pending), body \in Bodies, statusCode \in StatusCodes :
          ResJson(cb, body, statusCode) /\ UNCHANGED audit
    \/ SweepEmailStore

SpecInputs == Init /\ [][NextInputs]_vars

\* the login route behind the email limiter, one account, one login at a
\* time: a request is sent once the one before it has been answered
NextLogin ==
    \/ \E d \in LoginSteps : Tick(LoginSteps, d, MaxTicks)
    \/ \E req \in LoginRequests :
          /\ pending = EmptyBag
          /\ EmailRequest(loginRateLimiter, req)
          /\ audit' = EmailAudited(req)
    \/ \E cb \in BagToSet(pending) :
          /\ ResJson(cb, LoginHandler(cb).body, LoginHandler(cb).statusCode)
          /\ audit' = LoginAudited(cb)
    \/ SweepEmailStore

SpecLogin == Init /\ [][NextLogin]_vars

\* the login route behind the more permissive email limiter, one account,
\* one login at a time
NextPermissive ==
    \/ \E d \in LoginSteps : Tick(LoginSteps, d, MaxTicks)
    \/ \E req \in LoginRequests :
          /\ pending = EmptyBag
          /\ EmailRequest(permissiveLoginLimiter, req)
          /\ audit' = EmailAudited(req)
    \/ \E cb \in BagToSet(pending) :
          /\ ResJson(cb, LoginHandler(cb).body, LoginHandler(cb).statusCode)
          /\ audit' = LoginAudited(cb)
    \/ SweepEmailStore

SpecPermissive == Init /\ [][NextPermissive]_vars

\* simultaneous login attempts for one account
NextRace ==
    \/ \E d \in RaceSteps : Tick(RaceSteps, d, MaxTicks)
    \/ \E req \in RaceRequests :
          /\ EmailRequest(loginRateLimiter, req)
          /\ UNCHANGED audit
          /\ BagCardinality(pending') <= MaxRacePending
    \/ \E cb \in BagToSet(pending) :
          ResJson(cb, LoginHandler(cb).body, LoginHandler(cb).statusCode) /\ UNCHANGED audit
    \/ SweepEmailStore

SpecRace == Init /\ [][NextRace]_vars

\* the history of the record of `req`'s address after its request to the
\* strict limiter: a record made for the request has seen no response yet
StrictAudited(req) ==
    IF NeedsFreshRecord(store, IpKey(req), now)
    THEN Put(audit, IpKey(req), [kept |-> 0])
    ELSE audit

\* the history once the response of a request has finished: `kept` counts the
\* responses with a status >= 400 of the requests charged to the record
FinishAudited(cb, statusCode) ==
    IF Attached(cb) /\ cb.key \in DOMAIN audit /\ statusCode >= 400
    THEN [audit EXCEPT ![cb.key].kept = @ + 1]
    ELSE audit

\* the strict limiter alone on the store, one client address, one request at
\* a time: a request is sent once the response before it has finished
NextStrict ==
    \/ \E d \in StrictSteps : Tick(StrictSteps, d, MaxTicks)
    \/ \E req \in OneIpRequests :
          /\ pending = EmptyBag
          /\ IpRequest(strictRateLimiter, req)
          /\ audit' = StrictAudited(req)
    \/ \E cb \in BagToSet(pending), statusCode \in StatusCodes :
          Finish(cb, statusCode) /\ audit' = FinishAudited(cb, statusCode)
    \/ SweepStore

SpecStrict == Init /\ [][NextStrict]_vars

\* the history of the records after a guard has handled a request: per key,
\* the requests admitted on the key's present record whose outcome callback
\* has not run (`inflight`), and whether a callback registered on an earlier
\* record of the key has run since the present one was made (`late`)
AdmissionAudited(s, response) ==
    LET a1 == IF NeedsFreshRecord(s, response.key, now)
              THEN Put(audit, response.key, [inflight |-> 0, late |-> 0])
              ELSE audit
    IN  IF ~response.evaluated THEN audit
        ELSE IF response.next THEN [a1 EXCEPT ![response.key].inflight = @ + 1]
        ELSE a1

\* the key a callback was registered for: the one client address for a finish
\* hook, the one account for a res.json wrapper
KeyOfCallback(cb) ==
    IF cb.on = "finish" THEN "1.2.3.4" ELSE EmailKey("a@b.com")

\* the history once an outcome callback has run
OutcomeAudited(cb) ==
    IF KeyOfCallback(cb) \notin DOMAIN audit THEN audit
    ELSE IF Attached(cb) THEN [audit EXCEPT ![KeyOfCallback(cb)].inflight = @ - 1]
    ELSE [audit EXCEPT ![KeyOfCallback(cb)].late = 1]

\* a skipSuccessfulRequests limiter and an email limiter, one client address
\* and one account, with the history of the admissions; the two stores are
\* explored one at a time, a store being used while the other is empty
NextLate ==
    \/ \E d \in TestSteps : Tick(TestSteps, d, MaxTicks)
    \/ \E req \in OneIpRequests :
          /\ emailStore = <<>>
          /\ IpRequest(refundLimiter, req)
          /\ audit' = AdmissionAudited(store, res')
          /\ BagCardinality(pending') <= MaxPending
    \/ \E cb \in BagToSet(pending), statusCode \in StatusCodes :
          Finish(cb, statusCode) /\ audit' = OutcomeAudited(cb)
    \/ \E req \in EmailRequests :
          /\ store = <<>>
          /\ EmailRequest(emailLimiter, req)
          /\ audit' = AdmissionAudited(emailStore, res')
          /\ BagCardinality(pending') <= MaxPending
    \/ \E cb \in BagToSet(pending), body \in Bodies, statusCode \in StatusCodes :
          ResJson(cb, body, statusCode) /\ audit' = OutcomeAudited(cb)
    \/ SweepStore
    \/ SweepEmailStore

SpecLate == Init /\ [][NextLate]_vars

\* the limiters of NextPair with the cleanup timers firing again and again:
\* setInterval(..., 60 * 1000) runs either sweep every minute (lines 258-265,
\* 275-282), so a sweep that has something to remove is not put off for ever
SpecReaper ==
    /\ Init
    /\ [][NextPair]_vars
    /\ WF_vars(SweepStore)
    /\ WF_vars(SweepEmailStore)

----------------------------------------------------------------------------
(* Properties *)

\* the options of the IP limiter called `name`
IpLimiter(name) == CHOOSE opt \in AppIpLimiters \cup TestIpLimiters : opt.name = name

\* the guard that ran last was an IP limiter whose request fell inside the
\* window [t0, t0 + W) of a record that this limiter created at t0 for a key
\* that had none
InOwnWindow ==
    /\ res.guard = "ip"
    /\ res.key \in DOMAIN audit
    /\ audit[res.key].by = res.limiter
    /\ res.at < store[res.key].resetTime

\* C1: of the requests that an IP limiter receives for a key inside the window
\* opened by its first request for that key, exactly the first maxRequests are
\* passed on, and every later one is answered 429.
WindowBoundary ==
    InOwnWindow =>
        /\ res.next <=> audit[res.key].own <= IpLimiter(res.limiter).maxRequests
        /\ ~res.next => res.status = 429

\* the options of the email limiter called `name`
EmailLimiter(name) ==
    CHOOSE opt \in TestEmailLimiters \cup {loginRateLimiter, permissiveLoginLimiter} :
        opt.name = name

\* the guard that ran last looked up a record whose resetTime had passed
FoundExpired ==
    res.guard # "none" /\ res.evaluated /\ res.found.present /\ res.found.resetTime < res.at

\* C2: a request that arrives after the resetTime of its key's record has passed
\* is evaluated against a fresh record (count 0, resetTime = now + windowMs),
\* whatever the old record's count was: it is passed on, an IP limiter charges
\* it as the first of maxRequests, an email limiter leaves the count at 0.
WindowReset ==
    FoundExpired =>
        /\ res.next
        /\ res.guard = "ip" =>
              /\ store[res.key] =
                     [count |-> 1, resetTime |-> res.at + IpLimiter(res.limiter).windowMs]
              /\ res.headers["X-RateLimit-Remaining"] = IpLimiter(res.limiter).maxRequests - 1
        /\ res.guard = "email" =>
              emailStore[res.key] =
                  [count |-> 0, resetTime |-> res.at + EmailLimiter(res.limiter).windowMs]

\* an IP request arrives after a window in which the key used all of maxRequests
WindowResetAfterExhaustion ==
    /\ FoundExpired
    /\ res.guard = "ip"
    /\ res.found.count = IpLimiter(res.limiter).maxRequests

\* the message a limiter was configured with
MessageOf(guard, name) ==
    IF guard = "ip" THEN IpLimiter(name).message ELSE EmailLimiter(name).message

\* C5: a guard that denies a request sets Retry-After, answers 429 with the body
\* {success: false, error: {message, statusCode: 429, retryAfter}} whose
\* retryAfter is the header's value, and does not call next.
DenialFormat ==
    (res.guard # "none" /\ (res.status = 429 \/ ~res.next)) =>
        /\ res.status = 429
        /\ ~res.next
        /\ "Retry-After" \in DOMAIN res.headers
        /\ res.body = [success |-> FALSE,
                       error |-> [message |-> MessageOf(res.guard, res.limiter),
                                  statusCode |-> 429,
                                  retryAfter |-> res.headers["Retry-After"]]]

\* an email limiter has denied a request
EmailDenialSent == res.guard = "email" /\ res.status = 429

RateLimitHeaders == {"X-RateLimit-Limit", "X-RateLimit-Remaining", "X-RateLimit-Reset"}

\* C6: every request for which a guard, IP or email, evaluates a key gets the
\* headers X-RateLimit-Limit, X-RateLimit-Remaining and X-RateLimit-Reset.
HeadersOnEveryEvaluation ==
    (res.guard # "none" /\ res.evaluated) => RateLimitHeaders \subseteq DOMAIN res.headers

\* the logins admitted on the record of `key` that are charged to it or will
\* be: failures already counted, and failing logins still in flight
AdmittedFailures(key) ==
    emailStore[key].count
      + Copies({cb \in BagToSet(pending) :
                   cb.key = key /\ LoginHandler(cb).statusCode = 401}, pending)

\* C10: whatever the interleaving of the logins in flight for one email, at most
\* maxAttempts logins that end in a failed authentication are admitted to the
\* login handler on one record.
AtomicCheckAndCharge ==
    \A key \in DOMAIN emailStore : AdmittedFailures(key) <= loginRateLimiter.maxAttempts

\* whether a limiter with the options `opt` would deny a request for `key`
\* arriving at time t, the store being s
WouldDeny(opt, max, s, key, t) ==
    LimitExceeded(GetOrInit(s, key, t, opt.windowMs)[key], max)

\* what the store holds for `key`, and which of the limiters would deny it
IpView(limiters, s, key, t) ==
    [record |-> Found(s, key),
     deny |-> {opt.name : opt \in {o \in limiters : WouldDeny(o, o.maxRequests, s, key, t)}}]

EmailView(limiters, s, key, t) ==
    [record |-> Found(s, key),
     deny |-> {opt.name : opt \in {o \in limiters : WouldDeny(o, o.maxAttempts, s, key, t)}}]

IpKeys == {IpKey(req) : req \in IpRequests}
EmailKeys == {EmailKey(req.email) : req \in PairEmailRequests}

\* the records of the keys other than `key`, and the decisions about them, are
\* the same after the step as before it
OthersUntouched(key) ==
    /\ \A B \in IpKeys \ {key} :
          IpView(PairIpLimiters, store', B, now') = IpView(PairIpLimiters, store, B, now)
    /\ \A B \in EmailKeys \ {key} :
          EmailView(TestEmailLimiters, emailStore', B, now')
              = EmailView(TestEmailLimiters, emailStore, B, now)

\* C3: a request for key A, allowed or denied, and an outcome callback of a
\* request for A leave the record (count and resetTime) of every other key B,
\* and the allow/deny decision about B, unchanged.
KeyIsolation ==
    [][ /\ \A opt \in PairIpLimiters, req \in IpRequests :
              IpRequest(opt, req) => OthersUntouched(IpKey(req))
        /\ \A cb \in BagToSet(pending), statusCode \in StatusCodes :
              Finish(cb, statusCode) => OthersUntouched(cb.key)
        /\ \A opt \in TestEmailLimiters, req \in PairEmailRequests :
              EmailRequest(opt, req) => OthersUntouched(EmailKey(req.email))
        /\ \A cb \in BagToSet(pending), body \in Bodies, statusCode \in StatusCodes :
              ResJson(cb, body, statusCode) => OthersUntouched(cb.key)
      ]_vars

\* a request for one address is denied while another address has a charged record
DeniedBesideAnotherKey ==
    /\ res.guard = "ip"
    /\ ~res.next
    /\ \E B \in DOMAIN store \ {res.key} : store[B].count > 0

\* the record that the limiter `other` looks up for `key`: every limiter built
\* by createRateLimiter reads the one store of the module (lines 96, 117)
ReadBy(other, s, key) == Found(s, key)

\* C4: a request charged by one policy changes neither the count or resetTime
\* that another policy reads for the same client nor another policy's
\* allow/deny decision.
PolicyIsolation ==
    [][ \A opt \in AppIpLimiters, req \in OneIpRequests :
            (IpRequest(opt, req) /\ res'.next) =>
                \A other \in AppIpLimiters \ {opt} :
                    /\ ReadBy(other, store', IpKey(req)) = ReadBy(other, store, IpKey(req))
                    /\ WouldDeny(other, other.maxRequests, store', IpKey(req), now')
                          = WouldDeny(other, other.maxRequests, store, IpKey(req), now)
      ]_vars

\* C7: inside one window the general limiter passes on the first 100 requests
\* of an address, the k-th with X-RateLimit-Remaining = 100 - k, and answers the
\* 101st and later ones 429; the X-RateLimit-Remaining of a request passed on
\* is max(0, maxRequests - count), the count taken after the request's charge.
GeneralQuota ==
    (InOwnWindow /\ res.limiter = rateLimiter.name) =>
        LET k == audit[res.key].own
        IN  /\ k <= rateLimiter.maxRequests =>
                  /\ res.next
                  /\ res.headers["X-RateLimit-Remaining"] = rateLimiter.maxRequests - k
            /\ k > rateLimiter.maxRequests => ~res.next /\ res.status = 429
            /\ res.next =>
                  res.headers["X-RateLimit-Remaining"]
                      = Max(0, rateLimiter.maxRequests - store[res.key].count)

\* the guard that ran last was the email limiter `opt`, for a request inside
\* the window of its account's record
InWindowOf(opt) ==
    /\ res.guard = "email"
    /\ res.limiter = opt.name
    /\ res.evaluated
    /\ res.found.present
    /\ res.at < res.found.resetTime

\* C8: on the login route, a record on which k logins have ended, all of them
\* in an authentication failure, has count k; a request that finds the count
\* at 5 or more inside the window is answered 429 and not passed on, whatever
\* its password; a request arriving after the window is evaluated against a
\* fresh record.
LoginLockout ==
    /\ \A key \in DOMAIN audit :
          audit[key].phase = "failing" =>
              Min(emailStore[key].count, MaxFailed) = audit[key].failed
    /\ (InWindowOf(loginRateLimiter) /\ res.found.count >= loginRateLimiter.maxAttempts) =>
          ~res.next /\ res.status = 429
    /\ (FoundExpired /\ res.limiter = loginRateLimiter.name) =>
          /\ res.next
          /\ emailStore[res.key] = FreshRecord(res.at, loginRateLimiter.windowMs)

\* after five failed logins the sixth request, with the correct password, is rejected
SixthLoginRejected ==
    /\ InWindowOf(loginRateLimiter)
    /\ res.req.password = "correct"
    /\ res.status = 429
    /\ audit[res.key].phase = "failing"
    /\ audit[res.key].failed = loginRateLimiter.maxAttempts
    /\ emailStore[res.key].count = loginRateLimiter.maxAttempts

\* C9: a login that ends in a success on a record that is still the store's
\* sets the count of its email to 0, so that the count is the number of the
\* failures that followed it, and a request that finds the count below
\* maxAttempts inside the window is passed on; so with maxAttempts = 6, five
\* failures, a success and one more failure leave the count at 1.
SuccessResets ==
    /\ \A key \in DOMAIN audit :
          audit[key].phase = "cleared" =>
              Min(emailStore[key].count, MaxFailed) = audit[key].after
    /\ (InWindowOf(permissiveLoginLimiter)
          /\ res.found.count < permissiveLoginLimiter.maxAttempts) => res.next

\* five failures, then a success, then one more failure
FailureAfterSuccess ==
    \E key \in DOMAIN audit :
        /\ audit[key].phase = "cleared"
        /\ audit[key].failed = permissiveLoginLimiter.maxAttempts - 1
        /\ audit[key].after = 1
        /\ emailStore[key].count = 1

\* the record of the key of the guard that ran last, in that guard's store
RecordOfLast == IF res.guard = "ip" THEN store[res.key] ELSE emailStore[res.key]

\* the count the guard that ran last decided on: that of the record it found
\* or, where it made a fresh record, 0
CountDecidedOn ==
    IF res.found.present /\ ~(res.found.resetTime < res.at) THEN res.found.count ELSE 0

\* C11: in every guard, the email limiter included, a request that is passed on
\* has been charged (count + 1) when the guard decides, before the handler runs.
ChargedAtDecision ==
    (res.guard # "none" /\ res.evaluated /\ res.next) =>
        RecordOfLast.count = CountDecidedOn + 1

\* C12: a request arriving at exactly now = resetTime of its key's record opens a
\* new window: the record is replaced by a fresh one (resetTime = now + windowMs)
\* and the request is passed on, also where the old count had reached the maximum.
BoundaryOpensWindow ==
    (res.guard # "none" /\ res.evaluated /\ res.found.present
        /\ res.found.resetTime = res.at) =>
        /\ res.next
        /\ RecordOfLast.resetTime =
              res.at + (IF res.guard = "ip" THEN IpLimiter(res.limiter).windowMs
                        ELSE EmailLimiter(res.limiter).windowMs)

\* C13: an email limiter that receives a request whose body has no email (the
\* field absent or empty) calls next, does not answer 429, and leaves the email
\* store as it is: no record made or changed, no outcome hook installed.
NoEmailPassThrough ==
    [][ (res'.guard = "email" /\ res'.req.email = "") =>
            /\ res'.next
            /\ res'.status # 429
            /\ ~res'.evaluated
            /\ emailStore' = emailStore
            /\ pending' = pending
      ]_vars

\* a request without an email has passed while an account has a record and a
\* login in flight
NoEmailBesideRecords ==
    /\ res.guard = "email"
    /\ res.req.email = ""
    /\ res.next
    /\ \E key \in DOMAIN emailStore : emailStore[key].count > 0
    /\ \E cb \in BagToSet(pending) : cb.on = "json" /\ Attached(cb)

\* C14: a guard never throws: whatever the request, it ends in calling next or
\* in a 429, never in an error that is answered with a 5xx.
NeverThrows ==
    res.guard # "none" => (res.next \/ res.status = 429)

\* the guard that ran last looked up a corrupted record: its count negative,
\* or its resetTime passed
FoundCorrupt ==
    /\ res.guard # "none"
    /\ res.evaluated
    /\ res.found.present
    /\ (res.found.count < 0 \/ res.found.resetTime < res.at)

\* C15: a request that finds its key's record corrupted (count negative, or
\* resetTime in the past and not swept) is passed on; a record whose resetTime
\* is in the past is replaced by a fresh window, not used for the decision.
FailOpenOnCorruption ==
    FoundCorrupt =>
        /\ res.next
        /\ res.found.resetTime < res.at =>
              /\ CountDecidedOn = 0
              /\ RecordOfLast.count = (IF res.guard = "ip" THEN 1 ELSE 0)
              /\ RecordOfLast.resetTime =
                    res.at + (IF res.guard = "ip" THEN IpLimiter(res.limiter).windowMs
                              ELSE EmailLimiter(res.limiter).windowMs)

\* a request was decided on a record with a negative count and an open window
DecidedOnNegativeCount ==
    FoundCorrupt /\ res.found.count < 0 /\ res.at < res.found.resetTime

\* the options that the limiter called `name` was built from
ConfigOf(name) == CHOOSE o \in ConfigOptions : ConfigName(o) = name

\* C16: createRateLimiter and createEmailRateLimiter reject a maximum <= 0 and a
\* windowMs <= 0 when the policy is built: no middleware built from such
\* options ever handles a request.
ConfigValidated ==
    res.guard # "none" =>
        ConfigOf(res.limiter).max > 0 /\ ConfigOf(res.limiter).windowMs > 0

\* C17: a limiter whose maximum is <= 0 answers 429 to every request for which
\* it evaluates a key, whatever the store holds.
NonPositiveMaxDenies ==
    (res.guard # "none" /\ res.evaluated /\ ConfigOf(res.limiter).max <= 0) =>
        ~res.next /\ res.status = 429

\* a limiter with a maximum <= 0 has denied the first request of an account
DeniedOnNewRecord ==
    /\ res.guard = "email"
    /\ res.evaluated
    /\ ConfigOf(res.limiter).max <= 0
    /\ ~res.found.present
    /\ res.status = 429

\* the keys of `s` whose resetTime is in the past at time t
Expired(s, t) == {k \in DOMAIN s : s[k].resetTime < t}

\* C18: after a sweep no key whose resetTime is in the past remains in the
\* swept store, and the next request for a key the store no longer holds
\* creates a new record whose count after that request is 1.
ReaperEviction ==
    /\ [][ /\ (res'.guard = "none" /\ now' = now /\ store' # store) =>
                Expired(store', now) = {}
           /\ (res'.guard = "none" /\ now' = now /\ emailStore' # emailStore
                  /\ DOMAIN emailStore' # DOMAIN emailStore) =>
                Expired(emailStore', now) = {} ]_vars
    /\ [](( res.guard # "none" /\ res.evaluated /\ ~res.found.present) =>
             RecordOfLast.count = 1 /\ RecordOfLast.resetTime > res.at)

\* the ceiling of the limiter that ran last
MaxOfLast ==
    IF res.guard = "ip" THEN IpLimiter(res.limiter).maxRequests
    ELSE EmailLimiter(res.limiter).maxAttempts

\* the guard that ran last found a live record whose count had reached the ceiling
FoundExhausted ==
    /\ res.guard # "none"
    /\ res.evaluated
    /\ res.found.present
    /\ ~(res.found.resetTime < res.at)
    /\ res.found.count >= MaxOfLast

\* C19: a request that finds a live record with count >= max is denied and
\* leaves both stores as they were: the record keeps its count and its
\* resetTime, and no record is created or deleted.
DenialLeavesStore ==
    [][ FoundExhausted' =>
          /\ res'.status = 429
          /\ ~res'.next
          /\ store' = store
          /\ emailStore' = emailStore ]_vars

\* an IP limiter has denied a request on a record that it left untouched
DeniedOnLiveRecord ==
    /\ FoundExhausted
    /\ res.guard = "ip"
    /\ res.status = 429
    /\ store[res.key].count = res.found.count
    /\ store[res.key].resetTime = res.found.resetTime
    /\ res.at < res.found.resetTime

\* C20: every 429 carries Retry-After = ceil((resetTime - now) / 1000) and the
\* value is at least 1, a request arriving at now = resetTime included.
RetryAfterPositive ==
    (res.guard # "none" /\ res.status = 429) =>
        /\ res.headers["Retry-After"] = Ceil(RecordOfLast.resetTime - res.at, 1000)
        /\ res.headers["Retry-After"] >= 1

\* C21: the count of every record in both stores is >= 0 in every reachable
\* state, whatever the order of requests, refunds, failure charges, success
\* resets and sweeps.
CountNonNegative ==
    /\ \A key \in DOMAIN store : store[key].count >= 0
    /\ \A key \in DOMAIN emailStore : emailStore[key].count >= 0

\* refunds have taken the count of an IP record back to 0 while a failed login
\* is charged to an account
RefundedToZero ==
    /\ \E key \in DOMAIN store : store[key].count = 0
    /\ \E key \in DOMAIN emailStore : emailStore[key].count > 0
    /\ pending = EmptyBag

\* the keys whose count in store t differs from the one in store s, a record
\* that t holds and s does not counting as written
Written(s, t) ==
    {key \in DOMAIN t : key \notin DOMAIN s \/ t[key].count # s[key].count}

\* C22: every write to the count of a record (increment, decrement or reset,
\* those of the outcome callbacks included) happens while the record's window
\* is active: the record's resetTime is later than the time of the write.
WritesInsideWindow ==
    [][ /\ \A key \in Written(store, store') : store'[key].resetTime > now'
        /\ \A key \in Written(emailStore, emailStore') : emailStore'[key].resetTime > now' ]_vars

\* store t is store s without the records whose resetTime is <= time: none of
\* those is left, and every other record is there as it was
SweptAt(s, t, time) ==
    /\ \A key \in DOMAIN t : t[key].resetTime > time
    /\ \A key \in DOMAIN s : s[key].resetTime > time => key \in DOMAIN t /\ t[key] = s[key]

\* C23: a sweep at time now removes exactly the records with resetTime <= now:
\* afterwards none of them is left, and every record with resetTime > now is
\* still there with the same count and resetTime.
SweepRemovesExpired ==
    [][ /\ SweepStore => SweptAt(store, store', now)
        /\ SweepEmailStore => SweptAt(emailStore, emailStore', now) ]_vars

\* the requests charged to the record of `key` whose response has not finished
InFlight(key) == CopiesIn([on |-> "finish", key |-> key, password |-> ""], pending)

\* C24: with skipSuccessfulRequests the charge of a request is taken back when
\* its response finishes with a status < 400 and kept when it finishes with a
\* status >= 400: with requests handled one at a time, between two requests
\* the count of a record equals the number of requests charged to it whose
\* response finished with a status >= 400.
RefundOnSuccess ==
    \A key \in DOMAIN store :
        store[key].count = audit[key].kept + InFlight(key)

\* responses with a status >= 400 have used up the quota of the strict limiter
StrictQuotaKept ==
    /\ pending = EmptyBag
    /\ \E key \in DOMAIN store :
          /\ store[key].count = strictRateLimiter.maxRequests
          /\ audit[key].kept = strictRateLimiter.maxRequests
          /\ now < store[key].resetTime

\* the count that the JSON response (body, statusCode) of a request leaves on
\* a record whose count was `count`
CountAfterResponse(count, body, statusCode) ==
    IF ~body.success /\ statusCode \in {400, 401} THEN count + 1
    ELSE IF body.success /\ statusCode < 400 THEN 0
    ELSE count

\* C25: a request admitted by the email limiter changes the count of its
\* record only through its JSON response: + 1 for an unsuccessful body with
\* status 400 or 401, 0 for a successful body with a status < 400, no change
\* for any other response, and no change by a step that sends no JSON response.
JsonOutcomeOnly ==
    [][ /\ \A cb \in BagToSet(pending), body \in Bodies, statusCode \in StatusCodes :
              (ResJson(cb, body, statusCode) /\ cb.key \in DOMAIN emailStore) =>
                  /\ DOMAIN emailStore' = DOMAIN emailStore
                  /\ \A key \in DOMAIN emailStore :
                        /\ emailStore'[key].resetTime = emailStore[key].resetTime
                        /\ emailStore'[key].count =
                              IF key = cb.key
                              THEN CountAfterResponse(emailStore[key].count, body, statusCode)
                              ELSE emailStore[key].count
        /\ BagCardinality(pending') >= BagCardinality(pending) =>
              \A key \in DOMAIN emailStore \cap DOMAIN emailStore' :
                  emailStore'[key].resetTime = emailStore[key].resetTime =>
                      emailStore'[key].count = emailStore[key].count ]_vars

\* logins are in flight on a record that failed logins have been charged to
FailuresChargedByJson ==
    /\ res.guard = "none"
    /\ \E cb \in BagToSet(pending) :
          /\ cb.on = "json"
          /\ cb.key \in DOMAIN emailStore
          /\ emailStore[cb.key].count = emailLimiter.maxAttempts

\* in a step that runs an outcome callback, store t holds the records of
\* store s, and a record whose count differs had a request in flight on it
OnlyOwnOutcomes(s, t) ==
    /\ DOMAIN t = DOMAIN s
    /\ \A key \in DOMAIN s :
          /\ t[key].resetTime = s[key].resetTime
          /\ t[key].count # s[key].count => audit[key].inflight > 0

\* C26: the outcome callback of a request whose record has been swept or
\* replaced by a record of a new window changes neither the count nor the
\* resetTime of the key's new record: a callback changes the count of a record
\* only if a request admitted on that very record is still in flight, and a
\* late callback leaves both stores as they are.
LateOutcomeHarmless ==
    [][ BagCardinality(pending') < BagCardinality(pending) =>
          /\ OnlyOwnOutcomes(store, store')
          /\ OnlyOwnOutcomes(emailStore, emailStore')
          /\ (\E key \in DOMAIN audit : audit'[key].late # audit[key].late) =>
                store' = store /\ emailStore' = emailStore ]_vars

\* a late callback has run beside the charged record of a new window, on which
\* no request is in flight
LateOutcomeSeen ==
    \E key \in DOMAIN store :
        /\ audit[key].late = 1
        /\ audit[key].inflight = 0
        /\ store[key].count > 0
        /\ now < store[key].resetTime

CountWithinCeiling ==
    /\ \A key \in DOMAIN emailStore : emailStore[key].count <= loginRateLimiter.maxAttempts
    /\ \A key \in DOMAIN store : store[key].count <= rateLimiter.maxRequests

\* C29: every decision of an IP limiter is taken on a window no longer than
\* the limiter's own windowMs: resetTime - now <= windowMs at each request, so
\* a 429 of the API limiter carries Retry-After <= 60 and a 429 of a 15-minute
\* limiter Retry-After <= 900.
WindowWithinPolicy ==
    (res.guard = "ip" /\ res.evaluated) =>
        /\ RecordOfLast.resetTime - res.at <= IpLimiter(res.limiter).windowMs
        /\ res.status = 429 =>
              res.headers["Retry-After"] <= IpLimiter(res.limiter).windowMs \div 1000

\* C30: an allowed request is charged once against its client address: from
\* its arrival to the start of its route handler the count of the record
\* grows by exactly 1, on the routes behind the general limiter alone and on
\* /subscribe, where the API limiter follows it; and a request that arrives
\* while the window is active leaves the resetTime as it was.
ChargedOnce ==
    /\ []((res.guard = "ip" /\ res.limiter = rateLimiter.name /\ res.next) =>
             RecordOfLast.count = CountDecidedOn + 1)
    /\ [][ (res'.guard = "ip" /\ res'.limiter = apiRateLimiter.name /\ res'.next) =>
              store'[res'.key].count = CountDecidedOn + 1 ]_vars
    /\ []((res.guard = "ip" /\ res.found.present /\ ~(res.found.resetTime < res.at)) =>
             RecordOfLast.resetTime = res.found.resetTime)

====
